---- MODULE Spec2Model ----
(***************************************************************************)
(* Model of the nonlinear-mor reduction pipeline:                          *)
(*   - CubicParameterSpace.sample        (nonlinear_mor/utils/parameters)  *)
(*   - NonlinearNeuralNetworkReductor    (nonlinear_mor/reductors)         *)
(* Arrays are modelled as numpy models them: a shape and the flat data in  *)
(* C order.  Real coordinates are kept exact as <<numerator, denominator>>.*)
(***************************************************************************)
EXTENDS Integers, Sequences, FiniteSets, TLC

VARIABLES
    \* ---- CubicParameterSpace ----
    extends,        \* self.extends: sequence of <<p_min, p_max>>
    dim,            \* self.dim
    s_pc,           \* position of the sample call: "ready", "returned", "raised"
    num_samples,    \* argument of the last sample call
    mode,           \* argument of the last sample call
    parameters,     \* value returned by the last sample call (NoValue if none)
    \* ---- NonlinearNeuralNetworkReductor ----
    training_set,           \* self.training_set
    reference_solution,     \* self.reference_solution
    pc,                     \* position of the reduce call
    args,                   \* arguments of the reduce call in progress
    fom_solves,             \* parameters fom.solve was called with in this call
    cache_loads,            \* cache files unpickled in this call
    full_solutions,         \* local of reduce
    reg_calls,              \* calls of geodesic_shooter.register in this call
    running,                \* registrations started and not yet returned
    results,                \* pool.map: the result slot of each task
    reg_failed,             \* registrations that ended in an exception
    full_velocity_fields,   \* local of reduce / register_full_solutions
    warnings,               \* warnings logged in this call
    reduced_velocity_fields,\* local of reduce: the POD basis
    singular_values,        \* local of reduce
    reduced_coefficients,   \* local of reduce: one row per velocity field
    training_data,          \* local of reduce
    validation_data,        \* local of reduce
    min_input,              \* self.min_input (None while the attribute is unset)
    max_input,              \* self.max_input
    min_output,             \* self.min_output
    max_output,             \* self.max_output
    losses,                 \* outcome of each training attempt of this call
    best_neural_network,    \* local of multiple_restarts_training
    best_loss,              \* local of multiple_restarts_training
    returned,               \* value returned by reduce
    \* ---- the normalization, on numbers ----
    built_with,             \* what the functions held by an earlier reduced
                            \* model mapped every value to when it was built
    probe,                  \* outcome of the last direct call of a method
    \* ---- SpacetimeModel ----
    flux,                   \* ...discretization.numerical_flux.flux
    flux_derivative,        \* ...discretization.numerical_flux.flux_derivative
    inverse_transformation, \* ...discretization.inverse_transformation
    transformation,         \* self.transformation
    solve_calls,            \* parameters solve was called with on this model
    solution                \* value returned by the last solve call

svars == <<extends, dim, s_pc, num_samples, mode, parameters>>

cvars == <<training_set, reference_solution>>
callvars == <<args, fom_solves, cache_loads, full_solutions>>
regvars == <<reg_calls, running, results, reg_failed, full_velocity_fields,
            warnings>>
podvars == <<reduced_velocity_fields, singular_values, reduced_coefficients>>
datavars == <<training_data, validation_data>>
normvars == <<min_input, max_input, min_output, max_output>>
trainvars == <<losses, best_neural_network, best_loss>>

rvars == <<cvars, pc, callvars, regvars, podvars, datavars, normvars, trainvars,
           returned>>

nvars == <<built_with, probe>>

fvars == <<flux, flux_derivative, inverse_transformation, transformation,
          solve_calls, solution>>

vars == <<svars, rvars, nvars, fvars>>

\* ------------------------------------------------------------------------
\* Bounds of the model
\* ------------------------------------------------------------------------
MaxDim == 2          \* largest dimension of a parameter space
MaxSamples == 5      \* largest num_samples requested

MaxTrain == 2        \* largest number of training parameters
MaxWorkers == 2      \* largest num_workers
MaxBasis == 2        \* largest max_basis_size
MaxRestarts == 2     \* largest restarts
MaxLoss == 1         \* largest validation loss of a training attempt

Precision == 2       \* binary digits of a floating-point number
MaxValue == 4        \* largest parameter and largest output component
MaxMu == 2          \* the parameters solve is called with are 0..MaxMu
MaxCalls == 2       \* solve calls outside compute_full_solutions after which
                    \* no other caller calls solve

NoValue == [none |-> TRUE]

\* Python's None and a present value, for values that are compared
None == <<>>
Some(v) == <<v>>

\* ------------------------------------------------------------------------
\* CubicParameterSpace
\* ------------------------------------------------------------------------
\* the intervals an axis of a parameter space is given
Extents == {<<0, 1>>, <<1, 3>>, <<-1, 1>>}

\* values a caller can pass as num_samples: Python ints and floats
NumSamplesValues ==
    [type : {"int"}, val : (-1)..MaxSamples] \cup [type : {"float"}, val : {2}]

ModeValues == {"uniform", "random"}

RECURSIVE Pow(_, _)
Pow(b, e) == IF e = 0 THEN 1 ELSE b * Pow(b, e - 1)

\* ------------------------------------------------------------------------
\* Floating-point numbers
\* The tensors and the stats are binary floating-point numbers (float32 in
\* the program).  A number is <<"num", m, e>> with the value m * 2^e, m odd or
\* zero, |m| < 2^Precision; a division by zero gives "inf" or "nan".  Every
\* operation rounds its exact result to the nearest number, ties to even.
\* ------------------------------------------------------------------------
Pow2(k) == Pow(2, k)

Abs(i) == IF i < 0 THEN -i ELSE i

Sign(i) == IF i < 0 THEN -1 ELSE 1

\* the number of binary digits of n >= 0
RECURSIVE BitLength(_)
BitLength(n) == IF n = 0 THEN 0 ELSE 1 + BitLength(n \div 2)

NaN == <<"nan", 0, 0>>

Inf(sign) == <<"inf", sign, 0>>

\* the number m * 2^e in its one representation
RECURSIVE Canonical(_, _)
Canonical(m, e) ==
    IF m = 0 THEN <<"num", 0, 0>>
    ELSE IF m % 2 = 0 THEN Canonical(m \div 2, e + 1)
    ELSE <<"num", m, e>>

\* sign * (M + a fraction that is not zero iff sticky) * 2^e, rounded to
\* Precision digits, to nearest and ties to even
RoundToPrecision(sign, M, sticky, e) ==
    LET k == BitLength(M) - Precision
    IN  IF k <= 0 THEN Canonical(sign * M, e)
        ELSE LET q == M \div Pow2(k)
                 low == M % Pow2(k)
                 half == Pow2(k - 1)
                 up == \/ low > half
                       \/ low = half /\ (sticky \/ q % 2 = 1)
             IN  Canonical(sign * (IF up THEN q + 1 ELSE q), e + k)

\* the integer k as a number
Float(k) == RoundToPrecision(Sign(k), Abs(k), FALSE, 0)

\* the value of the number a in units of 2^e0, e0 <= its exponent
Scaled(a, e0) == a[2] * Pow2(a[3] - e0)

FNeg(a) == IF a[1] = "nan" THEN NaN ELSE <<a[1], -a[2], a[3]>>

\* a + b
FAdd(a, b) ==
    IF a[1] = "nan" \/ b[1] = "nan" THEN NaN
    ELSE IF a[1] = "inf" /\ b[1] = "inf"
    THEN (IF a[2] = b[2] THEN a ELSE NaN)
    ELSE IF a[1] = "inf" THEN a
    ELSE IF b[1] = "inf" THEN b
    ELSE LET e0 == IF a[3] <= b[3] THEN a[3] ELSE b[3]
             S == Scaled(a, e0) + Scaled(b, e0)
         IN  RoundToPrecision(Sign(S), Abs(S), FALSE, e0)

\* a - b
FSub(a, b) == FAdd(a, FNeg(b))

\* a * b
FMul(a, b) ==
    IF a[1] = "nan" \/ b[1] = "nan" THEN NaN
    ELSE IF a[1] = "inf" \/ b[1] = "inf"
    THEN (IF a[2] = 0 \/ b[2] = 0 THEN NaN ELSE Inf(Sign(a[2]) * Sign(b[2])))
    ELSE LET M == a[2] * b[2]
         IN  RoundToPrecision(Sign(M), Abs(M), FALSE, a[3] + b[3])

\* a / b: 0/0 is nan, x/0 is inf
FDiv(a, b) ==
    IF a[1] = "nan" \/ b[1] = "nan" THEN NaN
    ELSE IF a[1] = "inf" /\ b[1] = "inf" THEN NaN
    ELSE IF a[1] = "inf" THEN Inf(a[2] * Sign(b[2]))
    ELSE IF b[1] = "inf" THEN Float(0)
    ELSE IF b[2] = 0
    THEN (IF a[2] = 0 THEN NaN ELSE Inf(Sign(a[2])))
    ELSE LET N == Abs(a[2]) * Pow2(2 * Precision)
             Q == N \div Abs(b[2])
             sticky == N % Abs(b[2]) # 0
         IN  RoundToPrecision(Sign(a[2]) * Sign(b[2]), Q, sticky,
                              a[3] - b[3] - 2 * Precision)

\* a <= b on numbers
FLeq(a, b) ==
    /\ a[1] = "num" /\ b[1] = "num"
    /\ LET e0 == IF a[3] <= b[3] THEN a[3] ELSE b[3]
       IN  Scaled(a, e0) <= Scaled(b, e0)

\* np.min and np.max of a set of numbers
FMin(S) == CHOOSE x \in S : \A y \in S : FLeq(x, y)
FMax(S) == CHOOSE x \in S : \A y \in S : FLeq(y, x)

\* int(np.ceil(num_samples**(1/self.dim))): the least k with k^d >= n.
\* (In double precision the root is exact for every n, d within the bounds of
\* this model; the first deviation is n = 3125, d = 5.)
NumberOfParametersPerDimension(n, d) ==
    CHOOSE k \in 1..n : Pow(k, d) >= n /\ \A j \in 1..(k - 1) : Pow(j, d) < n

\* np.linspace(p_min, p_max, k)[i], i = 0..k-1, as an exact fraction
Linspace(p_min, p_max, k, i) ==
    IF k = 1 THEN <<p_min, 1>>
    ELSE <<p_min * (k - 1) + i * (p_max - p_min), k - 1>>

\* np.meshgrid(*linspace_list) with the default 'xy' indexing, each grid
\* transposed and stacked on the last axis: the position (1 = slowest) of the
\* index of input c among the d axes of the stacked array.
AxisOfInput(d, c) ==
    IF d = 1 THEN 1
    ELSE IF c = 1 THEN d - 1
    ELSE IF c = 2 THEN d
    ELSE d - c + 1

\* coordinate c of the point in row q (0-based) of the reshaped (k^d, d) array
Coordinate(ext, d, k, q, c) ==
    LET digit == (q \div Pow(k, d - AxisOfInput(d, c))) % k
    IN  Linspace(ext[c][1], ext[c][2], k, digit)

\* np.stack(...).reshape(-1, self.dim)
Reshaped(ext, d, k) ==
    [shape |-> <<Pow(k, d), d>>,
     data  |-> [j \in 1..(Pow(k, d) * d) |->
                    Coordinate(ext, d, k, (j - 1) \div d, ((j - 1) % d) + 1)]]

\* ndarray.squeeze(): every axis of length one is removed
Squeeze(a) ==
    [shape |-> SelectSeq(a.shape, LAMBDA s : s # 1), data |-> a.data]

\* the assertion on num_samples alone: the check of mode is left out
SampleAcceptsAnyMode(n, m) ==
    n.type = "int" /\ n.val >= 1

\* the two assertions at the head of sample
SampleAccepts(n, m) ==
    /\ m \in {"uniform"}
    /\ n.type = "int" /\ n.val >= 1

SampleResult(ext, d, n) ==
    Squeeze(Reshaped(ext, d, NumberOfParametersPerDimension(n, d)))

\* the locals of a reduce call before the call has set them
NoCall ==
    /\ args = None
    /\ fom_solves = <<>>
    /\ cache_loads = <<>>
    /\ full_solutions = <<>>
    /\ reg_calls = <<>>
    /\ running = {}
    /\ results = <<>>
    /\ reg_failed = {}
    /\ full_velocity_fields = <<>>
    /\ warnings = 0
    /\ reduced_velocity_fields = None
    /\ singular_values = None
    /\ reduced_coefficients = <<>>
    /\ training_data = <<>>
    /\ validation_data = <<>>
    /\ losses = <<>>
    /\ best_neural_network = None
    /\ best_loss = None
    /\ returned = None

\* no attribute of the normalization has been set on the reductor
NoNormalization ==
    /\ min_input = None
    /\ max_input = None
    /\ min_output = None
    /\ max_output = None

\* no reductor has been constructed
NoReductor ==
    /\ training_set = <<>>
    /\ reference_solution = None
    /\ pc = "idle"
    /\ NoCall
    /\ NoNormalization

\* no method has been called directly and no reduced model is followed
NoProbe ==
    /\ built_with = None
    /\ probe = None

\* a function object as functools sees it: the function called in the end
\* and the keyword arguments bound so far (none for a plain function)
NoKeywords == [k \in {} |-> 0]
Function(name) == [func |-> name, keywords |-> NoKeywords]

\* the model as __init__ leaves it: no function has a parameter bound
FreshModel ==
    /\ flux = Function("flux")
    /\ flux_derivative = Function("flux_derivative")
    /\ inverse_transformation = Function("inverse_transformation")
    /\ transformation = Function("transformation")
    /\ solve_calls = <<>>
    /\ solution = None

\* no parameter space is in use
NoParameterSpace ==
    /\ dim = 1
    /\ extends = <<<<0, 1>>>>
    /\ s_pc = "ready"
    /\ num_samples = NoValue
    /\ mode = NoValue
    /\ parameters = NoValue

InitSample ==
    /\ dim \in 1..MaxDim
    /\ extends \in [1..dim -> Extents]
    /\ s_pc = "ready"
    /\ num_samples = NoValue
    /\ mode = NoValue
    /\ parameters = NoValue
    /\ NoReductor
    /\ NoProbe
    /\ FreshModel

\* CubicParameterSpace.sample(num_samples, mode)
Sample(n, m) ==
    /\ s_pc = "ready"
    /\ num_samples' = n
    /\ mode' = m
    /\ IF SampleAccepts(n, m)
       THEN /\ parameters' = SampleResult(extends, dim, n.val)
            /\ s_pc' = "returned"
       ELSE /\ parameters' = NoValue
            /\ s_pc' = "raised"
    /\ UNCHANGED <<extends, dim>>
    /\ UNCHANGED <<rvars, nvars, fvars>>

\* the caller is back in control and may call sample again
SampleReturn ==
    /\ s_pc \in {"returned", "raised"}
    /\ s_pc' = "ready"
    /\ num_samples' = NoValue
    /\ mode' = NoValue
    /\ parameters' = NoValue
    /\ UNCHANGED <<extends, dim>>
    /\ UNCHANGED <<rvars, nvars, fvars>>

NextSample ==
    \/ \E n \in NumSamplesValues, m \in ModeValues : Sample(n, m)
    \/ SampleReturn

SpecSample == InitSample /\ [][NextSample]_vars

\* ------------------------------------------------------------------------
\* NonlinearNeuralNetworkReductor
\* ------------------------------------------------------------------------
\* the training sets a reductor is constructed with: the parameters 1..n in
\* ascending and in descending order
TrainingSets ==
    UNION {{[i \in 1..n |-> i], [i \in 1..n |-> n + 1 - i]} : n \in 1..MaxTrain}

\* the reference parameter of the linear transport example
ReferenceParameter == 1

\* fom.solve(mu): the full-order model is a deterministic function of mu
Solve(mu) == [solution_of |-> mu]

\* geodesic_shooter.register(reference, u, initial_vector_field=...)
\* ['initial_vector_field']: the oracle is deterministic, its result is kept
\* as the term of its arguments
Register(reference, u, initial_vector_field) ==
    [reference |-> reference, target |-> u, initial |-> initial_vector_field]

\* the content of a pickled full-solutions file: written by some earlier run
SolutionFiles ==
    {[i \in 1..MaxTrain |-> <<MaxTrain + 1 - i, Solve(MaxTrain + 1 - i)>>]}

\* the content of a pickled velocity-fields file
VelocityFieldFiles ==
    {[i \in 1..MaxTrain |-> Register(Solve(1), Solve(1), None)]}

\* values a caller can pass as max_basis_size / restarts
IntArgs(max) == [type : {"int"}, val : 0..max] \cup [type : {"float"}, val : {1}]

ReduceArgs ==
    [max_basis_size : IntArgs(MaxBasis),
     restarts : IntArgs(MaxRestarts),
     num_workers : 1..MaxWorkers,
     full_solutions_file : {None} \cup {Some(f) : f \in SolutionFiles},
     full_velocity_fields_file : {None} \cup {Some(f) : f \in VelocityFieldFiles},
     reuse_vector_fields : BOOLEAN]

\* __init__; one reduce call on the new reductor is followed to its end
Init ==
    /\ training_set \in TrainingSets
    /\ reference_solution = Solve(ReferenceParameter)
    /\ pc = "idle"
    /\ NoCall
    /\ NoNormalization
    /\ NoParameterSpace
    /\ NoProbe
    /\ FreshModel

\* the assertion on max_basis_size alone
ReduceAcceptsAnyRestarts(a) ==
    a.max_basis_size.type = "int" /\ a.max_basis_size.val > 0

\* the two assertions at the head of reduce
ReduceAccepts(a) ==
    /\ a.max_basis_size.type = "int" /\ a.max_basis_size.val > 0
    /\ a.restarts.type = "int" /\ a.restarts.val > 0

\* reduce(...) is called: the assertions, before anything else
Reduce(a) ==
    /\ pc = "idle"
    /\ args' = Some(a)
    /\ pc' = IF ReduceAccepts(a) THEN "compute_full_solutions" ELSE "raised"
    /\ UNCHANGED <<fom_solves, cache_loads, full_solutions>>
    /\ UNCHANGED <<cvars, regvars, podvars, datavars, normvars, trainvars, returned>>
    /\ UNCHANGED <<svars, nvars, fvars>>

\* a cache file is never looked at
CacheNeverGiven(file) == FALSE

\* `if full_solutions_file:` / `if full_velocity_fields_file:`
CacheGiven(file) == file # None

\* the solves done in ascending order of the parameter
SolveTrainingSetSorted(ts) ==
    LET rank(i) == Cardinality({j \in 1..Len(ts) : ts[j] <= ts[i]})
        at(r) == CHOOSE i \in 1..Len(ts) : rank(i) = r
    IN  [r \in 1..Len(ts) |-> <<ts[at(r)], [solution_of |-> ts[at(r)]]>>]

\* compute_full_solutions without a cache file: one solve per training
\* parameter, in the order of the training set
SolveTrainingSet(ts) ==
    [i \in 1..Len(ts) |-> <<ts[i], Solve(ts[i])>>]

\* compute_full_solutions(full_solutions_file)
ComputeFullSolutions ==
    /\ pc = "compute_full_solutions"
    /\ IF CacheGiven(args[1].full_solutions_file)
       THEN /\ full_solutions' = args[1].full_solutions_file[1]
            /\ cache_loads' = Append(cache_loads, "full_solutions_file")
            /\ UNCHANGED fom_solves
       ELSE /\ full_solutions' = SolveTrainingSet(training_set)
            /\ fom_solves' = fom_solves \o training_set
            /\ UNCHANGED cache_loads
    /\ pc' = "register_full_solutions"
    /\ UNCHANGED <<args, cvars, regvars, podvars, datavars, normvars, trainvars, returned>>
    /\ UNCHANGED <<svars, nvars, fvars>>

\* perform_single_registration(input_, initial_velocity_field): v0
PerformSingleRegistration(input_, initial_velocity_field) ==
    Register(reference_solution, input_[2], initial_velocity_field)

\* the warning logged whatever reuse_vector_fields is
ParallelWarningsAlways(reuse_vector_fields) == 1

\* the warning of the parallel branch: logged when reuse was asked for
ParallelWarnings(reuse_vector_fields) ==
    IF reuse_vector_fields THEN 1 ELSE 0

\* register_full_solutions: the cache file, or the choice of the branch
RegisterFullSolutions ==
    /\ pc = "register_full_solutions"
    /\ IF CacheGiven(args[1].full_velocity_fields_file)
       THEN /\ full_velocity_fields' = args[1].full_velocity_fields_file[1]
            /\ cache_loads' = Append(cache_loads, "full_velocity_fields_file")
            /\ pc' = "pod"
            /\ UNCHANGED <<warnings, results>>
       ELSE IF args[1].num_workers > 1
       THEN /\ warnings' = warnings + ParallelWarnings(args[1].reuse_vector_fields)
            /\ results' = [i \in 1..Len(full_solutions) |-> None]
            /\ pc' = "pool_map"
            /\ UNCHANGED <<full_velocity_fields, cache_loads>>
       ELSE /\ full_velocity_fields' = <<>>
            /\ pc' = "sequential"
            /\ UNCHANGED <<warnings, results, cache_loads>>
    /\ UNCHANGED <<args, fom_solves, full_solutions, reg_calls, running, reg_failed>>
    /\ UNCHANGED <<cvars, podvars, datavars, normvars, trainvars, returned>>
    /\ UNCHANGED <<svars, nvars, fvars>>

\* the initial guess the parallel branch binds into perform_registration
PoolInitialVelocityField(reuse_vector_fields) == None

\* pool.map hands the next task of the queue to a free worker, which calls
\* perform_single_registration with initial_velocity_field=None
PoolStart ==
    /\ pc = "pool_map"
    /\ Cardinality(running) < args[1].num_workers
    /\ Len(reg_calls) < Len(full_solutions)
    /\ LET k == Len(reg_calls) + 1
       IN  /\ reg_calls' = Append(reg_calls,
                [input |-> full_solutions[k],
                 initial_vector_field |->
                     PoolInitialVelocityField(args[1].reuse_vector_fields)])
           /\ running' = running \cup {k}
    /\ UNCHANGED <<results, reg_failed, full_velocity_fields, warnings>>
    /\ UNCHANGED <<pc, callvars, cvars, podvars, datavars, normvars, trainvars, returned>>
    /\ UNCHANGED <<svars, nvars, fvars>>

\* the results kept in the reverse order of the tasks
ResultSlotReversed(k) == Len(results) + 1 - k

\* the slot of pool.map's result list that the result of task k goes to
ResultSlot(k) == k

\* how a call of geodesic_shooter.register ends
RegistrationOutcomes == {"returns", "raises"}

\* a worker's registration ends: its result goes to the slot of its task; an
\* exception is kept for the task, and the worker is free for the next one
PoolFinish(k, outcome) ==
    /\ pc = "pool_map"
    /\ k \in running
    /\ IF outcome = "returns"
       THEN /\ results' = [results EXCEPT ![ResultSlot(k)] =
                    Some(PerformSingleRegistration(reg_calls[k].input,
                                                   reg_calls[k].initial_vector_field))]
            /\ UNCHANGED reg_failed
       ELSE /\ reg_failed' = reg_failed \cup {k}
            /\ UNCHANGED results
    /\ running' = running \ {k}
    /\ UNCHANGED <<reg_calls, full_velocity_fields, warnings>>
    /\ UNCHANGED <<pc, callvars, cvars, podvars, datavars, normvars, trainvars, returned>>
    /\ UNCHANGED <<svars, nvars, fvars>>

\* all tasks are done: pool.map returns the results in the order of its
\* input, or raises the exception of a task
PoolCollect ==
    /\ pc = "pool_map"
    /\ running = {}
    /\ Len(reg_calls) = Len(full_solutions)
    /\ IF reg_failed = {}
       THEN /\ full_velocity_fields' = [i \in 1..Len(full_solutions) |-> results[i][1]]
            /\ pc' = "pod"
       ELSE /\ pc' = "raised"
            /\ UNCHANGED full_velocity_fields
    /\ UNCHANGED <<reg_calls, running, results, reg_failed, warnings>>
    /\ UNCHANGED <<callvars, cvars, podvars, datavars, normvars, trainvars, returned>>
    /\ UNCHANGED <<svars, nvars, fvars>>

\* the reuse starting one iteration late
InitialVelocityFieldOffByOne(reuse_vector_fields, i, velocity_fields) ==
    IF reuse_vector_fields /\ i > 1
    THEN Some(velocity_fields[Len(velocity_fields)])
    ELSE None

\* the initial guess of iteration i (0-based) of the sequential loop
InitialVelocityField(reuse_vector_fields, i, velocity_fields) ==
    IF reuse_vector_fields /\ i > 0
    THEN Some(velocity_fields[Len(velocity_fields)])
    ELSE None

\* the sequential loop calls perform_single_registration for the next pair
SequentialStart ==
    /\ pc = "sequential"
    /\ running = {}
    /\ Len(full_velocity_fields) < Len(full_solutions)
    /\ LET i == Len(full_velocity_fields)
       IN  /\ reg_calls' = Append(reg_calls,
                [input |-> full_solutions[i + 1],
                 initial_vector_field |->
                     InitialVelocityField(args[1].reuse_vector_fields, i,
                                          full_velocity_fields)])
           /\ running' = {i + 1}
    /\ UNCHANGED <<results, reg_failed, full_velocity_fields, warnings>>
    /\ UNCHANGED <<pc, callvars, cvars, podvars, datavars, normvars, trainvars, returned>>
    /\ UNCHANGED <<svars, nvars, fvars>>

\* the exception of a registration caught and the loop going on
LoopAfterRegistrationSwallowing(outcome) == "sequential"

\* where the sequential loop is after a registration: nothing catches an
\* exception, it leaves the loop, register_full_solutions and reduce
LoopAfterRegistration(outcome) ==
    IF outcome = "raises" THEN "raised" ELSE "sequential"

\* the registration ends: its velocity field is appended, or its exception
\* propagates
SequentialFinish(k, outcome) ==
    /\ pc = "sequential"
    /\ k \in running
    /\ IF outcome = "returns"
       THEN /\ full_velocity_fields' = Append(full_velocity_fields,
                    PerformSingleRegistration(reg_calls[k].input,
                                              reg_calls[k].initial_vector_field))
            /\ UNCHANGED reg_failed
       ELSE /\ reg_failed' = reg_failed \cup {k}
            /\ UNCHANGED full_velocity_fields
    /\ pc' = LoopAfterRegistration(outcome)
    /\ running' = running \ {k}
    /\ UNCHANGED <<reg_calls, results, warnings>>
    /\ UNCHANGED <<callvars, cvars, podvars, datavars, normvars, trainvars, returned>>
    /\ UNCHANGED <<svars, nvars, fvars>>

\* the sequential loop has consumed full_solutions
SequentialDone ==
    /\ pc = "sequential"
    /\ running = {}
    /\ Len(full_velocity_fields) = Len(full_solutions)
    /\ pc' = "pod"
    /\ UNCHANGED <<callvars, cvars, regvars, podvars, datavars, normvars, trainvars, returned>>
    /\ UNCHANGED <<svars, nvars, fvars>>

\* pod(full_velocity_fields, modes=max_basis_size, product_operator=...,
\* return_singular_values=True): the decomposition is kept as the term of its
\* arguments
Pod(fields, modes, product_operator) ==
    [basis |-> [basis_of |-> fields, modes |-> modes,
                product_operator |-> product_operator],
     singular_values |-> [singular_values_of |-> fields, modes |-> modes,
                          product_operator |-> product_operator]]

\* snapshot_matrix.dot(reduced_velocity_fields.T): one row per velocity field,
\* the plain dot product of the flattened field with every basis vector
ReducedCoefficients(fields, basis) ==
    [i \in 1..Len(fields) |->
        [coefficients_of |-> fields[i], modes |-> basis.modes,
         product_operator |-> "dot"]]

\* the POD of the velocity fields and the reduced coefficients
PodAndProject ==
    /\ pc = "pod"
    /\ LET decomposition == Pod(full_velocity_fields, args[1].max_basis_size.val,
                                "cauchy_navier")
       IN  /\ reduced_velocity_fields' = Some(decomposition.basis)
           /\ singular_values' = Some(decomposition.singular_values)
           /\ reduced_coefficients' =
                  ReducedCoefficients(full_velocity_fields, decomposition.basis)
    /\ pc' = "training_data"
    /\ UNCHANGED <<callvars, cvars, regvars, datavars, normvars, trainvars, returned>>
    /\ UNCHANGED <<svars, nvars, fvars>>

Min(a, b) == IF a <= b THEN a ELSE b

\* zip(full_solutions, reduced_coefficients): the pairs (mu, coeff)
ZipTrainingData(solutions, coefficients) ==
    [i \in 1..Min(Len(solutions), Len(coefficients)) |->
        <<solutions[i][1], coefficients[i]>>]

BuildTrainingData ==
    /\ pc = "training_data"
    /\ training_data' = ZipTrainingData(full_solutions, reduced_coefficients)
    /\ pc' = "shuffle"
    /\ UNCHANGED validation_data
    /\ UNCHANGED <<callvars, cvars, regvars, podvars, normvars, trainvars, returned>>
    /\ UNCHANGED <<svars, nvars, fvars>>

\* training_data[:int(0.1 * len(training_data)) + 1]
ValidationSplit(data) ==
    SubSeq(data, 1, Min(Len(data), (Len(data) \div 10) + 1))

\* training_data[int(0.1 * len(training_data)) + 2:]
TrainingSplit(data) ==
    SubSeq(data, (Len(data) \div 10) + 3, Len(data))

\* random.shuffle(training_data) and the split into validation and training
ShuffleAndSplit ==
    /\ pc = "shuffle"
    /\ \E perm \in Permutations(1..Len(training_data)) :
          LET shuffled == [i \in 1..Len(training_data) |-> training_data[perm[i]]]
          IN  /\ validation_data' = ValidationSplit(shuffled)
              /\ training_data' = TrainingSplit(shuffled)
    /\ pc' = "compute_normalization"
    /\ UNCHANGED <<callvars, cvars, regvars, podvars, normvars, trainvars, returned>>
    /\ UNCHANGED <<svars, nvars, fvars>>

Range(f) == {f[i] : i \in DOMAIN f}

MinOf(S) == CHOOSE x \in S : \A y \in S : x <= y
MaxOf(S) == CHOOSE x \in S : \A y \in S : x >= y

\* compute_normalization(training_data, validation_data): the attributes
\* are set on the reductor.  The inputs are numbers; the minimum and the
\* maximum over the output components are kept as terms of the outputs.
ComputeNormalization ==
    /\ pc = "compute_normalization"
    /\ LET data == training_data \o validation_data
       IN  /\ min_input' = Some(MinOf({elem[1] : elem \in Range(data)}))
           /\ max_input' = Some(MaxOf({elem[1] : elem \in Range(data)}))
           /\ min_output' = Some([min_of |-> {elem[2] : elem \in Range(data)}])
           /\ max_output' = Some([max_of |-> {elem[2] : elem \in Range(data)}])
    /\ pc' = "normalize"
    /\ UNCHANGED <<callvars, cvars, regvars, podvars, datavars, trainvars, returned>>
    /\ UNCHANGED <<svars, nvars, fvars>>

\* normalize_input(data): an exact fraction <<numerator, denominator>>; a
\* denominator of 0 is the division by zero, which numpy and torch answer
\* with nan or inf
NormalizeInput(data) ==
    <<data - min_input[1], max_input[1] - min_input[1]>>

\* normalize_output(data)
NormalizeOutput(data) ==
    [normalized |-> data, min_output |-> min_output[1],
     max_output |-> max_output[1]]

\* normalize(data)
NormalizeData(data) ==
    [i \in 1..Len(data) |-> <<NormalizeInput(data[i][1]), NormalizeOutput(data[i][2])>>]

\* the assertions at the head of normalize
NormalizeAccepts ==
    /\ min_input # None /\ max_input # None
    /\ min_output # None /\ max_output # None

\* training_data = self.normalize(training_data);
\* validation_data = self.normalize(validation_data)
Normalize ==
    /\ pc = "normalize"
    /\ IF NormalizeAccepts
       THEN /\ training_data' = NormalizeData(training_data)
            /\ validation_data' = NormalizeData(validation_data)
            /\ pc' = "training"
       ELSE /\ pc' = "raised"
            /\ UNCHANGED datavars
    /\ UNCHANGED <<callvars, cvars, regvars, podvars, normvars, trainvars, returned>>
    /\ UNCHANGED <<svars, nvars, fvars>>

\* what trainer.train can end in: a validation loss, a loss that is not a
\* number, or an exception
TrainOutcomes ==
    [kind : {"loss"}, val : 0..MaxLoss] \cup [kind : {"nan", "raise"}, val : {0}]

\* best_loss > loss on floats: false whenever one side is not a number
Greater(a, b) ==
    a.kind = "loss" /\ b.kind = "loss" /\ a.val > b.val

\* the test that makes an attempt the best so far
IsNewBest(best, loss) ==
    best = None \/ Greater(best[1], loss)

\* one pass of the loop of multiple_restarts_training: train_neural_network
\* builds and trains a fresh network, and the best one is kept
TrainNeuralNetwork(outcome) ==
    /\ pc = "training"
    /\ Len(losses) < args[1].restarts.val
    /\ losses' = Append(losses, outcome)
    /\ IF outcome.kind = "raise"
       THEN /\ pc' = "raised"
            /\ UNCHANGED <<best_neural_network, best_loss>>
       ELSE /\ pc' = pc
            /\ IF IsNewBest(best_loss, outcome)
               THEN /\ best_neural_network' = Some([attempt |-> Len(losses) + 1])
                    /\ best_loss' = Some(outcome)
               ELSE UNCHANGED <<best_neural_network, best_loss>>
    /\ UNCHANGED <<callvars, cvars, regvars, podvars, datavars, normvars, returned>>
    /\ UNCHANGED <<svars, nvars, fvars>>

\* build_rom(velocity_fields, neural_network): the model holds the bound
\* methods normalize_input and denormalize_output of the reductor
BuildRom(velocity_fields, neural_network) ==
    [reference_solution |-> reference_solution,
     velocity_fields |-> velocity_fields,
     neural_network |-> neural_network,
     normalize_input |-> "self.normalize_input",
     denormalize_output |-> "self.denormalize_output"]

\* the value of the return statement of reduce
ReturnValue(rom, return_all) ==
    IF return_all
    THEN [rom |-> rom,
          result |-> Some([reduced_velocity_fields |-> reduced_velocity_fields,
                           singular_values |-> singular_values,
                           full_velocity_fields |-> full_velocity_fields,
                           training_data |-> training_data,
                           validation_data |-> validation_data,
                           best_loss |-> best_loss])]
    ELSE [rom |-> rom, result |-> None]

\* range(restarts) is used up: multiple_restarts_training returns the best
\* network and its loss, the reduced model is built and reduce returns.
\* return_all is read by the return statement alone: it is drawn there.
BuildRomAndReturn(return_all) ==
    /\ pc = "training"
    /\ Len(losses) >= args[1].restarts.val
    /\ returned' = Some(ReturnValue(BuildRom(reduced_velocity_fields,
                                             best_neural_network), return_all))
    /\ pc' = "returned"
    /\ UNCHANGED <<callvars, cvars, regvars, podvars, datavars, normvars, trainvars>>
    /\ UNCHANGED <<svars, nvars, fvars>>

Next ==
    \/ \E a \in ReduceArgs : Reduce(a)
    \/ ComputeFullSolutions
    \/ RegisterFullSolutions
    \/ PoolStart
    \/ \E k \in running, outcome \in RegistrationOutcomes : PoolFinish(k, outcome)
    \/ PoolCollect
    \/ SequentialStart
    \/ \E k \in running, outcome \in RegistrationOutcomes : SequentialFinish(k, outcome)
    \/ SequentialDone
    \/ PodAndProject
    \/ BuildTrainingData
    \/ ShuffleAndSplit
    \/ ComputeNormalization
    \/ Normalize
    \/ \E outcome \in TrainOutcomes : TrainNeuralNetwork(outcome)
    \/ \E return_all \in BOOLEAN : BuildRomAndReturn(return_all)

Spec == Init /\ [][Next]_vars

\* ------------------------------------------------------------------------
\* The normalization on numbers: compute_normalization, normalize,
\* normalize_input, normalize_output, denormalize_output and build_rom on
\* tensors of floating-point numbers.  A parameter is a number, a coefficient
\* row is a sequence of numbers.
\* ------------------------------------------------------------------------
FloatValues == {Float(k) : k \in (-1)..MaxValue}

\* the pairs (parameter, coefficient row) reduce builds at lines 117-118
NumericPairs ==
    {<<Float(a), <<Float(a), Float(MaxValue - 1 - a)>>>> : a \in (-1)..MaxValue}

\* the validation and the training data after the shuffle and the split
NumericData ==
    {[training |-> td, validation |-> <<v>>] :
        v \in NumericPairs, td \in {<<>>} \cup {<<t>> : t \in NumericPairs}}

\* a reductor on which one reduce call at a time and direct calls of the
\* public methods are followed
InitNorm ==
    /\ Init
    /\ Len(training_set) = 1

\* compute_normalization(training_data, validation_data): np.min and np.max
\* over the parameters and over all components of all coefficient rows
compute_normalization(td, vd) ==
    LET data == td \o vd
        inputs == {elem[1] : elem \in Range(data)}
        outputs == UNION {Range(elem[2]) : elem \in Range(data)}
    IN  /\ min_input' = Some(FMin(inputs))
        /\ max_input' = Some(FMax(inputs))
        /\ min_output' = Some(FMin(outputs))
        /\ max_output' = Some(FMax(outputs))

\* the difference to the minimum divided by the maximum
normalize_input_by_max(data) ==
    FDiv(FSub(data, min_input[1]), max_input[1])

\* normalize_input(data)
normalize_input(data) ==
    FDiv(FSub(data, min_input[1]), FSub(max_input[1], min_input[1]))

\* normalize_output(data), on every component of the tensor
normalize_output(data) ==
    [i \in 1..Len(data) |->
        FDiv(FSub(data[i], min_output[1]), FSub(max_output[1], min_output[1]))]

\* the maximum added back in place of the minimum
denormalize_output_from_max(data) ==
    [i \in 1..Len(data) |->
        FAdd(FMul(data[i], FSub(max_output[1], min_output[1])), max_output[1])]

\* denormalize_output(data), on every component of the tensor
denormalize_output(data) ==
    [i \in 1..Len(data) |->
        FAdd(FMul(data[i], FSub(max_output[1], min_output[1])), min_output[1])]

\* normalize(data), past its assertions
normalize(data) ==
    [i \in 1..Len(data) |->
        <<normalize_input(data[i][1]), normalize_output(data[i][2])>>]

\* what the functions a reduced model holds map every value to: the model
\* holds the bound methods self.normalize_input and self.denormalize_output
FunctionsHeld ==
    [normalize_input |-> [x \in FloatValues |-> normalize_input(x)],
     denormalize_output |-> [y \in FloatValues |-> denormalize_output(<<y>>)[1]]]

\* reduce has built, shuffled and split the training pairs (lines 93-121)
ReduceSplitsData(data) ==
    /\ pc = "idle"
    /\ training_data' = data.training
    /\ validation_data' = data.validation
    /\ pc' = "compute_normalization"
    /\ probe' = None
    /\ UNCHANGED <<callvars, cvars, regvars, podvars, normvars, trainvars, returned>>
    /\ UNCHANGED <<svars, built_with, fvars>>

\* line 123 of reduce left out: normalize is reached with the attributes of
\* the reductor as they were
ReduceSkipsNormalization ==
    /\ pc = "compute_normalization"
    /\ pc' = "normalize"
    /\ UNCHANGED <<callvars, cvars, regvars, podvars, datavars, normvars, trainvars, returned>>
    /\ UNCHANGED <<svars, nvars, fvars>>

\* line 123 of reduce
ReduceComputesNormalization ==
    /\ pc = "compute_normalization"
    /\ compute_normalization(training_data, validation_data)
    /\ pc' = "normalize"
    /\ UNCHANGED <<callvars, cvars, regvars, podvars, datavars, trainvars, returned>>
    /\ UNCHANGED <<svars, nvars, fvars>>

\* lines 124-125 of reduce
ReduceNormalizes ==
    /\ pc = "normalize"
    /\ IF NormalizeAccepts
       THEN /\ training_data' = normalize(training_data)
            /\ validation_data' = normalize(validation_data)
            /\ pc' = "training"
       ELSE /\ pc' = "raised"
            /\ UNCHANGED datavars
    /\ UNCHANGED <<callvars, cvars, regvars, podvars, normvars, trainvars, returned>>
    /\ UNCHANGED <<svars, nvars, fvars>>

\* lines 129-143 of reduce: the network is trained on the normalized data,
\* the reduced model is built and returned.  follow: the caller keeps this
\* model and goes on using it.
ReduceTrainsAndReturns(follow) ==
    /\ pc = "training"
    /\ pc' = "idle"
    /\ training_data' = <<>>
    /\ validation_data' = <<>>
    /\ built_with' = IF follow THEN Some(FunctionsHeld) ELSE built_with
    /\ UNCHANGED probe
    /\ UNCHANGED <<callvars, cvars, regvars, podvars, normvars, trainvars, returned>>
    /\ UNCHANGED <<svars, fvars>>

\* reductor.compute_normalization(training_data, validation_data), called
\* directly
CallComputeNormalization(data) ==
    /\ pc = "idle"
    /\ compute_normalization(data.training, data.validation)
    /\ probe' = None
    /\ UNCHANGED <<pc, callvars, cvars, regvars, podvars, datavars, trainvars, returned>>
    /\ UNCHANGED <<svars, built_with, fvars>>

\* reductor.normalize(data), called directly: the assertions, then the list
CallNormalize(data) ==
    /\ pc = "idle"
    /\ probe' = Some([call |-> "normalize", input |-> data,
                      raised |-> ~NormalizeAccepts,
                      value |-> IF NormalizeAccepts THEN normalize(data) ELSE <<>>])
    /\ UNCHANGED <<rvars, svars, built_with, fvars>>

\* reductor.denormalize_output(reductor.normalize_output(x)), called directly
\* on a reductor that has its stats
CallRoundTrip(x) ==
    /\ pc = "idle"
    /\ NormalizeAccepts
    /\ probe' = Some([call |-> "round_trip", input |-> x,
                      raised |-> FALSE,
                      value |-> denormalize_output(normalize_output(x))])
    /\ UNCHANGED <<rvars, svars, built_with, fvars>>

NextNorm ==
    \/ \E data \in NumericData : ReduceSplitsData(data)
    \/ ReduceComputesNormalization
    \/ ReduceNormalizes
    \/ \E follow \in BOOLEAN : ReduceTrainsAndReturns(follow)
    \/ \E data \in NumericData : CallComputeNormalization(data)
    \/ \E elem \in NumericPairs : CallNormalize(<<elem>>)
    \/ \E v \in FloatValues : CallRoundTrip(<<v>>)

SpecNorm == InitNorm /\ [][NextNorm]_vars

\* ------------------------------------------------------------------------
\* SpacetimeModel.solve, called by the constructor of the reductor, by
\* compute_full_solutions and by any other caller of the model
\* ------------------------------------------------------------------------
MuValues == 0..MaxMu

\* the keyword arguments {'mu': mu}
Keywords(mu) == [k \in {"mu"} |-> mu]

\* the keywords bound first are kept
MergeKeepingBound(bound, new) ==
    [k \in DOMAIN bound \cup DOMAIN new |->
        IF k \in DOMAIN bound THEN bound[k] ELSE new[k]]

\* {**bound, **new}: a keyword given again replaces the one bound before
Merge(bound, new) ==
    [k \in DOMAIN bound \cup DOMAIN new |->
        IF k \in DOMAIN new THEN new[k] ELSE bound[k]]

\* functools.partial(f, **keywords): a partial of a partial is the partial
\* of the inner function with the merged keywords
Partial(f, keywords) ==
    [func |-> f.func, keywords |-> Merge(f.keywords, keywords)]

\* grid_operator.solve(): the solution as the term of the functions the
\* discretization calls
GridOperatorSolve(f, df, inv) ==
    [flux |-> f, flux_derivative |-> df, inverse_transformation |-> inv]

\* u.sample_function_uniformly(transformation, n_x, n_t)
SampleFunctionUniformly(u, t) == [sampled |-> u, transformation |-> t]

\* solve(mu): _reparametrize_flux_functions(mu), grid_operator.solve() and
\* the sampling
solve(mu) ==
    /\ flux' = Partial(flux, Keywords(mu))
    /\ flux_derivative' = Partial(flux_derivative, Keywords(mu))
    /\ inverse_transformation' = Partial(inverse_transformation, Keywords(mu))
    /\ transformation' = Partial(transformation, Keywords(mu))
    /\ solve_calls' = Append(solve_calls, mu)
    /\ solution' = Some(SampleFunctionUniformly(
            GridOperatorSolve(flux', flux_derivative', inverse_transformation'),
            transformation'))

\* the training sets of the reductor built on the model
SolveTrainingSets ==
    UNION {[1..n -> MuValues] : n \in 1..MaxTrain}

\* a model, and the training set of the reductor that will be built on it
InitSolve ==
    /\ FreshModel
    /\ training_set \in SolveTrainingSets
    /\ reference_solution = None
    /\ pc = "idle"
    /\ NoCall
    /\ NoNormalization
    /\ NoParameterSpace
    /\ NoProbe

\* NonlinearNeuralNetworkReductor.__init__: the reference solution
ReductorSolvesReference(reference_parameter) ==
    /\ reference_solution = None
    /\ solve(reference_parameter)
    /\ reference_solution' = solution'
    /\ UNCHANGED <<training_set, pc, callvars, regvars, podvars, datavars,
                   normvars, trainvars, returned>>
    /\ UNCHANGED <<svars, nvars>>

\* compute_full_solutions: the next element of the list comprehension
ReductorSolvesNext ==
    /\ reference_solution # None
    /\ Len(full_solutions) < Len(training_set)
    /\ LET mu == training_set[Len(full_solutions) + 1]
       IN  /\ solve(mu)
           /\ full_solutions' = Append(full_solutions, <<mu, solution'[1]>>)
           /\ fom_solves' = Append(fom_solves, mu)
    /\ UNCHANGED <<args, cache_loads>>
    /\ UNCHANGED <<cvars, pc, regvars, podvars, datavars, normvars, trainvars,
                   returned>>
    /\ UNCHANGED <<svars, nvars>>

\* fom.solve(mu) called by anyone else, before or between the calls of the
\* reductor
CallSolve(mu) ==
    /\ Len(solve_calls) - Len(fom_solves) < MaxCalls
    /\ solve(mu)
    /\ UNCHANGED <<rvars, svars, nvars>>

NextSolve ==
    \/ \E mu \in MuValues : ReductorSolvesReference(mu)
    \/ ReductorSolvesNext
    \/ \E mu \in MuValues : CallSolve(mu)

SpecSolve == InitSolve /\ [][NextSolve]_vars

\* ------------------------------------------------------------------------
\* Properties of NonlinearNeuralNetworkReductor
\* ------------------------------------------------------------------------
PositiveInteger(x) == x.type = "int" /\ x.val >= 1

\* reduce is past compute_full_solutions
Solved ==
    \/ pc \in {"register_full_solutions", "pool_map", "sequential", "pod",
               "training_data", "shuffle", "compute_normalization",
               "normalize", "training", "returned"}
    \/ pc = "raised" /\ losses # <<>>

\* reduce is past register_full_solutions
Registered ==
    \/ pc \in {"pod", "training_data", "shuffle", "compute_normalization",
               "normalize", "training", "returned"}
    \/ pc = "raised" /\ losses # <<>>

\* C4: reduce called with max_basis_size or restarts that is not a positive
\* integer fails before any computation: no FOM solve, no cache load, no
\* registration, no POD and no network training happens in that call.
C4_FailFast ==
    (pc # "idle" /\ ~(PositiveInteger(args[1].max_basis_size)
                      /\ PositiveInteger(args[1].restarts)))
    => /\ pc = "raised"
       /\ fom_solves = <<>>
       /\ cache_loads = <<>>
       /\ reg_calls = <<>>
       /\ full_solutions = <<>> /\ full_velocity_fields = <<>>
       /\ reduced_velocity_fields = None /\ singular_values = None
       /\ losses = <<>>
       /\ returned = None

C4_Witness ==
    /\ pc = "raised"
    /\ PositiveInteger(args[1].max_basis_size)
    /\ args[1].restarts.type = "int" /\ args[1].restarts.val = 0

\* C5: positional alignment.  Without a solutions cache, compute_full_solutions
\* solves in training-set order and returns the pairs (mu, solution) in that
\* order; without a velocity-field cache, entry i of the list returned by
\* register_full_solutions is the result of registering pair i, for
\* num_workers = 1 and for num_workers > 1; every training pair built in
\* reduce joins the parameter of pair i with the coefficients of velocity
\* field i.
C5_Alignment ==
    /\ (Solved /\ args[1].full_solutions_file = None) =>
          /\ fom_solves = training_set
          /\ Len(full_solutions) = Len(training_set)
          /\ \A i \in 1..Len(training_set) :
                /\ full_solutions[i][1] = training_set[i]
                /\ full_solutions[i][2] = Solve(training_set[i])
    /\ (Registered /\ args[1].full_velocity_fields_file = None) =>
          /\ Len(full_velocity_fields) = Len(full_solutions)
          /\ \A i \in 1..Len(full_solutions) :
                /\ reg_calls[i].input = full_solutions[i]
                /\ full_velocity_fields[i] =
                       Register(reference_solution, full_solutions[i][2],
                                reg_calls[i].initial_vector_field)
    /\ (pc = "shuffle") =>
          \A i \in 1..Len(training_data) :
                /\ training_data[i][1] = full_solutions[i][1]
                /\ training_data[i][2].coefficients_of = full_velocity_fields[i]
    /\ (pc \in {"compute_normalization", "normalize"}) =>
          \A pair \in Range(training_data) \cup Range(validation_data) :
             \E i \in 1..Len(full_solutions) :
                /\ pair[1] = full_solutions[i][1]
                /\ pair[2].coefficients_of = full_velocity_fields[i]

C5_Witness ==
    /\ pc = "compute_normalization"
    /\ args[1].num_workers > 1
    /\ args[1].full_solutions_file = None
    /\ args[1].full_velocity_fields_file = None
    /\ Len(training_set) >= 2 /\ training_set[1] > training_set[2]
    /\ validation_data[1][1] = training_set[2]

\* C6: a cache path skips its stage.  With full_solutions_file,
\* compute_full_solutions calls fom.solve zero times and returns the loaded
\* artifact unchanged; with full_velocity_fields_file, register_full_solutions
\* calls the registration oracle zero times, for any num_workers and
\* reuse_vector_fields, and returns the loaded artifact unchanged, whatever
\* the training set is.
C6_CacheSkipsStage ==
    /\ (Solved /\ args[1].full_solutions_file # None) =>
          /\ fom_solves = <<>>
          /\ full_solutions = args[1].full_solutions_file[1]
    /\ (Registered /\ args[1].full_velocity_fields_file # None) =>
          /\ reg_calls = <<>>
          /\ warnings = 0
          /\ full_velocity_fields = args[1].full_velocity_fields_file[1]

C6_Witness ==
    /\ Registered
    /\ args[1].full_solutions_file # None
    /\ args[1].full_velocity_fields_file # None
    /\ args[1].num_workers > 1 /\ args[1].reuse_vector_fields
    /\ Len(full_velocity_fields) # Len(training_set)
    /\ cache_loads = <<"full_solutions_file", "full_velocity_fields_file">>

\* the parallel branch of register_full_solutions has been entered
ParallelMode ==
    /\ (pc = "pool_map" \/ Registered)
    /\ args[1].num_workers > 1
    /\ args[1].full_velocity_fields_file = None

\* the sequential branch of register_full_solutions has been entered
SequentialMode ==
    /\ (pc = "sequential" \/ Registered)
    /\ args[1].num_workers = 1
    /\ args[1].full_velocity_fields_file = None

\* C7: in parallel mode no registration is warm-started: every call of the
\* registration oracle receives initial_vector_field = None whatever
\* reuse_vector_fields is, and a warning is logged exactly when
\* reuse_vector_fields is true.
C7_ParallelNoWarmStart ==
    (pc # "idle" /\ args[1].num_workers > 1) =>
        /\ \A k \in 1..Len(reg_calls) : reg_calls[k].initial_vector_field = None
        /\ ParallelMode =>
              /\ warnings \in {0, 1}
              /\ (warnings = 1) <=> args[1].reuse_vector_fields

C7_Witness ==
    /\ ParallelMode /\ pc = "pool_map"
    /\ args[1].reuse_vector_fields
    /\ Len(reg_calls) >= 2
    /\ warnings = 1

\* C8: in sequential mode the registrations run one after another in input
\* order: registration k+1 starts only after registration k has returned; the
\* first one gets no initial guess; with reuse_vector_fields, registration k+1
\* gets exactly the velocity field returned by registration k; without it,
\* every registration gets no initial guess.
C8_SequentialWarmStart ==
    SequentialMode =>
        /\ Cardinality(running) <= 1
        /\ Len(reg_calls) = Len(full_velocity_fields) + Cardinality(running)
        /\ running \subseteq {Len(reg_calls)}
        /\ \A k \in 1..Len(reg_calls) :
              /\ reg_calls[k].input = full_solutions[k]
              /\ reg_calls[k].initial_vector_field =
                    IF args[1].reuse_vector_fields /\ k > 1
                    THEN Some(full_velocity_fields[k - 1])
                    ELSE None
        /\ \A k \in 1..Len(full_velocity_fields) :
              full_velocity_fields[k] =
                  Register(reference_solution, reg_calls[k].input[2],
                           reg_calls[k].initial_vector_field)

C8_Witness ==
    /\ SequentialMode /\ pc = "sequential"
    /\ args[1].reuse_vector_fields
    /\ running = {2}
    /\ reg_calls[1].initial_vector_field = None
    /\ reg_calls[2].initial_vector_field = Some(full_velocity_fields[1])

\* what registering every solution on its own, with no initial guess, gives
IndependentRegistrations(solutions) ==
    [i \in 1..Len(solutions) |-> Register(reference_solution, solutions[i][2], None)]

\* C9: with reuse_vector_fields false and a deterministic oracle,
\* register_full_solutions yields the same velocity fields on the same full
\* solutions for num_workers = 1 and for any num_workers > 1, under every
\* interleaving of the workers: in both modes the list is the list of the
\* independent registrations, and every result slot filled on the way holds
\* the registration of its own task.
C9_ParallelEqualsSequential ==
    (pc # "idle" /\ ~args[1].reuse_vector_fields
                 /\ args[1].full_velocity_fields_file = None) =>
        /\ Registered =>
              full_velocity_fields = IndependentRegistrations(full_solutions)
        /\ pc = "pool_map" =>
              \A i \in 1..Len(results) :
                  results[i] # None =>
                      results[i][1] = IndependentRegistrations(full_solutions)[i]
        /\ pc = "sequential" =>
              \A i \in 1..Len(full_velocity_fields) :
                  full_velocity_fields[i] = IndependentRegistrations(full_solutions)[i]

\* a parallel run in which the second task has returned before the first
C9_Witness ==
    /\ pc = "pool_map"
    /\ ~args[1].reuse_vector_fields
    /\ Len(results) >= 2
    /\ results[1] = None /\ results[2] # None

\* multiple_restarts_training has ended, by a return or by an exception
TrainingEnded ==
    pc = "returned" \/ (pc = "raised" /\ losses # <<>>)

\* C10: multiple_restarts_training with restarts = r >= 1 runs exactly r
\* training attempts, none skipped or stopped early, and returns the network
\* of an attempt whose validation loss is the minimum over all r attempts,
\* with that minimum as best_loss.
C10_BestOfRestarts ==
    TrainingEnded =>
        /\ Len(losses) = args[1].restarts.val
        /\ best_loss # None /\ best_neural_network # None
        /\ losses[best_neural_network[1].attempt] = best_loss[1]
        /\ \A j \in 1..Len(losses) : ~Greater(best_loss[1], losses[j])

\* C10, restricted to the calls in which every attempt hands back a number as
\* its loss: the r attempts are all run, and the network and the loss handed
\* on are those of an attempt of least loss.
C10_AllAttemptsSucceed ==
    /\ (pc # "idle" /\ args # None) => Len(losses) <= args[1].restarts.val
    /\ (pc = "returned") =>
          /\ Len(losses) = args[1].restarts.val
          /\ (\A j \in 1..Len(losses) : losses[j].kind = "loss") =>
                /\ best_loss # None /\ best_neural_network # None
                /\ best_loss[1].kind = "loss"
                /\ \A j \in 1..Len(losses) : best_loss[1].val <= losses[j].val
                /\ losses[best_neural_network[1].attempt] = best_loss[1]
                /\ returned[1].rom.neural_network = best_neural_network
                /\ returned[1].result # None =>
                       returned[1].result[1].best_loss = best_loss

C10_Witness ==
    /\ pc = "returned"
    /\ Len(losses) = 2
    /\ losses[1].kind = "loss" /\ losses[2].kind = "loss"
    /\ losses[1].val > losses[2].val
    /\ best_neural_network = Some([attempt |-> 2])

\* ------------------------------------------------------------------------
\* Properties of CubicParameterSpace.sample
\* ------------------------------------------------------------------------
\* the least k with k^d >= n, that is ceil(n^(1/d))
CeilRoot(n, d) ==
    CHOOSE k \in 1..n : Pow(k, d) >= n /\ \A j \in 1..(k - 1) : Pow(j, d) < n

\* len(a) of an array: the length of its first axis; an array without axes
\* has no length (-1)
Length(a) == IF Len(a.shape) = 0 THEN -1 ELSE a.shape[1]

\* C1: for dim = d >= 1 and an integer num_samples = n >= 1, sample(n,
\* 'uniform') returns exactly ceil(n^(1/d))^d parameter points, and that
\* count is >= n.
C1_SampleCount ==
    s_pc = "returned" =>
        /\ Length(parameters) = Pow(CeilRoot(num_samples.val, dim), dim)
        /\ Length(parameters) >= num_samples.val

\* C2: for dim = 1 and every num_samples >= 1 (num_samples = 1 included) the
\* result is a flat sequence of scalars whose length is the number of sampled
\* points: never a sequence of 1-tuples, never a bare scalar.
C2_FlatSequence ==
    (s_pc = "returned" /\ dim = 1) =>
        /\ Len(parameters.shape) = 1
        /\ parameters.shape[1] = Len(parameters.data)
        /\ parameters.shape[1] = CeilRoot(num_samples.val, 1)

\* C3: sample fails with an error and returns no parameters whenever
\* num_samples < 1 or is not an integer or mode is not 'uniform'; extents and
\* dim are unchanged by the failed call.
C3_SampleRejects ==
    /\ [](((s_pc # "ready") /\ (num_samples.type # "int" \/ num_samples.val < 1
                                   \/ mode # "uniform"))
            => (s_pc = "raised" /\ parameters = NoValue))
    /\ [][s_pc' = "raised" => (extends' = extends /\ dim' = dim)]_vars

C3_Witness ==
    /\ s_pc = "raised"
    /\ num_samples.type = "int" /\ num_samples.val >= 1
    /\ mode # "uniform"

\* ------------------------------------------------------------------------
\* Failure of single training attempts
\* ------------------------------------------------------------------------
\* the attempts that handed back a number as their loss
SuccessfulAttempts == {j \in 1..Len(losses) : losses[j].kind = "loss"}

\* C11: a single restart whose training raises or yields a NaN loss does not
\* abort multiple_restarts_training: the remaining restarts still run, the
\* failed restart is excluded from the selection and the network returned is
\* the best of the successful restarts, wherever the failed restart stands.
C11_RestartFailureTolerated ==
    /\ (\E j \in 1..Len(losses) : losses[j].kind = "raise") => pc # "raised"
    /\ (pc = "returned" /\ SuccessfulAttempts # {}) =>
          /\ Len(losses) = args[1].restarts.val
          /\ best_neural_network # None /\ best_loss # None
          /\ best_neural_network[1].attempt \in SuccessfulAttempts
          /\ best_loss[1] = losses[best_neural_network[1].attempt]
          /\ \A j \in SuccessfulAttempts : best_loss[1].val <= losses[j].val

\* ------------------------------------------------------------------------
\* Properties of the normalization
\* ------------------------------------------------------------------------
\* the stats are set and the outputs have a range
OutputRange ==
    /\ NormalizeAccepts
    /\ min_output[1] # max_output[1]

\* the last direct call was a round trip of a tensor within the output range
RoundTripInRange ==
    /\ probe # None
    /\ probe[1].call = "round_trip"
    /\ OutputRange
    /\ \A i \in 1..Len(probe[1].input) :
          /\ FLeq(min_output[1], probe[1].input[i])
          /\ FLeq(probe[1].input[i], max_output[1])

\* |z - x| <= 4 * 2^-Precision * (|x - lowest| + |x|)
WithinRounding(z, x, lowest) ==
    /\ z[1] = "num"
    /\ LET e0 == CHOOSE e \in {z[3], x[3], lowest[3]} :
                     \A f \in {z[3], x[3], lowest[3]} : e <= f
           Z == Scaled(z, e0)
           X == Scaled(x, e0)
           L == Scaled(lowest, e0)
       IN  Abs(Z - X) * Pow2(Precision) <= 4 * (Abs(X - L) + Abs(X))

\* C12 as stated: for fixed stats with max_output # min_output,
\* denormalize_output(normalize_output(x)) = x exactly, for every x within
\* the training+validation output range.
C12_ExactRoundTrip ==
    RoundTripInRange => probe[1].value = probe[1].input

\* C12, amended: for fixed stats with max_output # min_output,
\* denormalize_output(normalize_output(x)) is x up to the rounding of the
\* four floating-point operations, for every x within the output range: it
\* differs from x by at most 4 * 2^-Precision * (|x - min_output| + |x|).
C12_RoundTripUpToRounding ==
    RoundTripInRange =>
        /\ Len(probe[1].value) = Len(probe[1].input)
        /\ \A i \in 1..Len(probe[1].input) :
              WithinRounding(probe[1].value[i], probe[1].input[i], min_output[1])

\* a round trip within the range that does not give the value back
C12_Witness ==
    /\ RoundTripInRange
    /\ probe[1].value # probe[1].input

\* the stats are set and all parameters they were computed from are equal
DegenerateInput ==
    /\ NormalizeAccepts
    /\ min_input[1] = max_input[1]

\* C13: with max_input = min_input, normalizing an input is a defined
\* failure: it ends in an error and never hands a value on, neither to the
\* training within reduce nor to the caller of normalize.
C13_DegenerateInputFails ==
    DegenerateInput =>
        /\ pc # "training"
        /\ (probe # None /\ probe[1].call = "normalize") => probe[1].raised

\* C14: the normalization used by a reduced model returned from reduce is
\* frozen at the stats of the run that built it: after any later operations
\* on the same reductor (a second reduce, a compute_normalization call) the
\* normalize-input and denormalize-output functions the model holds still
\* map every value as they did when the model was built.
C14_NormalizationFrozen ==
    (built_with # None /\ NormalizeAccepts) =>
        \A x \in FloatValues :
            /\ FunctionsHeld.normalize_input[x] = built_with[1].normalize_input[x]
            /\ FunctionsHeld.denormalize_output[x] = built_with[1].denormalize_output[x]

\* ------------------------------------------------------------------------
\* Properties of the value returned by reduce
\* ------------------------------------------------------------------------
\* C15: a successful reduce(return_all=True) with max_basis_size = b returns
\* a reduced model and a result dictionary in which reduced_velocity_fields
\* has b rows, singular_values has length b (sorted descending, by the
\* contract of pod) and best_loss is a finite non-negative number, the
\* validation loss of the selected network; reduce(return_all=False) returns
\* the reduced model alone.
C15_ResultDictionary ==
    (pc = "returned") =>
        /\ returned # None
        /\ returned[1].rom = BuildRom(reduced_velocity_fields, best_neural_network)
        /\ returned[1].result # None =>
              LET result == returned[1].result[1]
              IN  /\ result.reduced_velocity_fields # None
                  /\ result.reduced_velocity_fields[1].modes = args[1].max_basis_size.val
                  /\ result.singular_values # None
                  /\ result.singular_values[1].modes = args[1].max_basis_size.val
                  /\ result.full_velocity_fields = full_velocity_fields
                  /\ result.best_loss # None
                  /\ result.best_loss[1].kind = "loss"
                  /\ result.best_loss[1].val >= 0
                  /\ returned[1].rom.neural_network # None
                  /\ losses[returned[1].rom.neural_network[1].attempt] = result.best_loss[1]

\* C16: of the n shuffled pairs reduce takes the first floor(0.1 n) + 1 as
\* validation data and those from index floor(0.1 n) + 2 on as training
\* data: the two are disjoint, the validation data are never empty, and the
\* training data are not empty for any n >= 1 for which a network is trained.
C16_Split ==
    (pc \in {"compute_normalization", "normalize"}) =>
        LET n == Min(Len(full_solutions), Len(reduced_coefficients))
        IN  /\ Len(validation_data) = (n \div 10) + 1
            /\ Len(training_data) = IF n >= (n \div 10) + 2
                                    THEN n - ((n \div 10) + 2) ELSE 0
            /\ Range(validation_data) \cap Range(training_data) = {}
            /\ Range(validation_data) \cup Range(training_data)
                   \subseteq Range(ZipTrainingData(full_solutions, reduced_coefficients))
            /\ validation_data # <<>>
            /\ training_data # <<>>

\* C17: the reduced coefficients of every training velocity field are
\* computed with the inner product the POD was done with: with the basis
\* extracted under the Cauchy-Navier product operator the projection applies
\* that product, not the plain dot product.
C17_SameInnerProduct ==
    (reduced_velocity_fields # None) =>
        \A i \in 1..Len(reduced_coefficients) :
            reduced_coefficients[i].product_operator =
                reduced_velocity_fields[1].product_operator

\* no stage after the registration has run: no POD, no coefficients, no
\* data, no training, and reduce has returned nothing
NoLaterStage ==
    /\ reduced_velocity_fields = None
    /\ singular_values = None
    /\ reduced_coefficients = <<>>
    /\ training_data = <<>>
    /\ validation_data = <<>>
    /\ losses = <<>>
    /\ best_neural_network = None
    /\ returned = None

\* C18: a registration that raises is fatal for reduce: once one has raised,
\* no later stage runs and nothing is returned, reduce ends by raising as soon
\* as the registration stage is left, every parameter is registered at most
\* once (the failing one is not retried) and no velocity field list without
\* the failing parameter is produced (it is not skipped); in sequential mode
\* the failing registration is the last one that was started.
C18_RegistrationFailureFatal ==
    (reg_failed # {}) =>
        /\ NoLaterStage
        /\ pc \in {"pool_map", "raised"}
        /\ Len(reg_calls) <= Len(full_solutions)
        /\ \A k \in 1..Len(reg_calls) : reg_calls[k].input = full_solutions[k]
        /\ \A k \in reg_failed : k \notin running /\ k <= Len(reg_calls)
        /\ Len(full_velocity_fields) < Len(full_solutions)
        /\ (args[1].num_workers = 1) =>
               /\ pc = "raised"
               /\ running = {}
               /\ reg_failed = {Len(reg_calls)}
               /\ Len(full_velocity_fields) = Len(reg_calls) - 1
        /\ (args[1].num_workers > 1) =>
               /\ full_velocity_fields = <<>>
               /\ (pc = "raised") => (running = {} /\ Len(reg_calls) = Len(full_solutions))

\* the first of two sequential registrations has raised, the second was
\* never started
C18_Witness ==
    /\ pc = "raised"
    /\ reg_failed = {1}
    /\ args[1].num_workers = 1
    /\ Len(full_solutions) = 2
    /\ Len(reg_calls) = 1

\* the stats compute_normalization sets for the given data
StatsOf(data) ==
    LET inputs == {elem[1] : elem \in Range(data)}
        outputs == UNION {Range(elem[2]) : elem \in Range(data)}
    IN  [min_input |-> Some(FMin(inputs)), max_input |-> Some(FMax(inputs)),
         min_output |-> Some(FMin(outputs)), max_output |-> Some(FMax(outputs))]

\* the stats the reductor has
Stats ==
    [min_input |-> min_input, max_input |-> max_input,
     min_output |-> min_output, max_output |-> max_output]

\* within reduce the stats are those of the data when normalize is called,
\* and they are set when the training starts; a direct call of normalize
\* returns data exactly when the stats are set, and raises otherwise
NormalizeNeedsStats ==
    /\ (pc = "normalize") =>
           NormalizeAccepts /\ Stats = StatsOf(training_data \o validation_data)
    /\ (pc = "training") => NormalizeAccepts
    /\ (probe # None /\ probe[1].call = "normalize") =>
           /\ probe[1].raised = ~NormalizeAccepts
           /\ probe[1].raised => probe[1].value = <<>>
           /\ ~probe[1].raised => Len(probe[1].value) = Len(probe[1].input)

\* C19: normalize never returns normalized data unless the stats have been
\* set by compute_normalization: the stats change in no step but one of
\* compute_normalization, reduce has completed compute_normalization on its
\* data before its first normalize call and before the training, and a
\* normalize call on a reductor without stats raises and returns nothing.
C19_NormalizeNeedsStats ==
    /\ []NormalizeNeedsStats
    /\ [][(normvars' # normvars) =>
              \/ ReduceComputesNormalization
              \/ \E data \in NumericData : CallComputeNormalization(data)]_vars

\* normalize was called on a reductor on which compute_normalization never
\* ran, and raised
C19_Witness ==
    /\ probe # None
    /\ probe[1].call = "normalize"
    /\ probe[1].raised
    /\ ~NormalizeAccepts

\* the normalized inputs and the components of the normalized outputs of data
InputsOf(data) == {elem[1] : elem \in Range(data)}
OutputComponentsOf(data) == UNION {Range(elem[2]) : elem \in Range(data)}

\* 0 <= v <= 1
InUnitInterval(v) == FLeq(Float(0), v) /\ FLeq(v, Float(1))

\* C20: when reduce has normalized its training and validation data with
\* stats of their union that have max > min for the inputs and for the
\* outputs, every normalized input and every component of every normalized
\* output handed to the training lies in [0, 1], and 0 and 1 are each the
\* value of some input and of some output component.
C20_NormalizedRange ==
    (/\ pc = "training"
     /\ min_input # max_input
     /\ min_output # max_output) =>
        LET data == training_data \o validation_data
        IN  /\ \A v \in InputsOf(data) \cup OutputComponentsOf(data) : InUnitInterval(v)
            /\ {Float(0), Float(1)} \subseteq InputsOf(data)
            /\ {Float(0), Float(1)} \subseteq OutputComponentsOf(data)

\* reduce has normalized a training pair and a validation pair with
\* different parameters, and a normalized output has a component strictly
\* between 0 and 1
C20_Witness ==
    /\ pc = "training"
    /\ min_input # max_input
    /\ min_output # max_output
    /\ Len(training_data) = 1
    /\ \E v \in OutputComponentsOf(training_data \o validation_data) :
           v \notin {Float(0), Float(1)}

\* ------------------------------------------------------------------------
\* Properties of SpacetimeModel.solve
\* ------------------------------------------------------------------------
\* the function of the given name with mu bound, and nothing else
BoundTo(name, mu) == [func |-> name, keywords |-> Keywords(mu)]

\* what solve(mu) returns on a model on which solve was never called
SolutionOfFreshModel(mu) ==
    SampleFunctionUniformly(
        GridOperatorSolve(BoundTo("flux", mu), BoundTo("flux_derivative", mu),
                          BoundTo("inverse_transformation", mu)),
        BoundTo("transformation", mu))

\* C21: solve(mu) depends on mu only, not on the solve calls made before:
\* after any sequence of calls the flux, the flux derivative, the inverse
\* transformation and the sampling transformation are the original functions
\* with mu of the last call bound and no earlier parameter, the value
\* returned is the one a fresh model returns for mu, and so are the
\* reference solution and every full solution of the reductor.
C21_SolveHistoryIndependent ==
    /\ (solve_calls # <<>>) =>
           LET mu == solve_calls[Len(solve_calls)]
           IN  /\ flux = BoundTo("flux", mu)
               /\ flux_derivative = BoundTo("flux_derivative", mu)
               /\ inverse_transformation = BoundTo("inverse_transformation", mu)
               /\ transformation = BoundTo("transformation", mu)
               /\ solution = Some(SolutionOfFreshModel(mu))
    /\ (reference_solution # None) =>
           \E mu \in MuValues : reference_solution = Some(SolutionOfFreshModel(mu))
    /\ \A i \in 1..Len(full_solutions) :
           /\ full_solutions[i][1] = training_set[i]
           /\ full_solutions[i][2] = SolutionOfFreshModel(training_set[i])

\* solve was called with a parameter after calls with two other parameters,
\* the reductor's among them
C21_Witness ==
    /\ Len(solve_calls) >= 3
    /\ Len(full_solutions) >= 1
    /\ \A i \in 1..(Len(solve_calls) - 1) :
           solve_calls[i] # solve_calls[Len(solve_calls)]
    /\ Cardinality({solve_calls[i] : i \in 1..Len(solve_calls)}) = 3

====
